---- MODULE Spec2Model ----
(***************************************************************************)
(* Model of src/hashMap_with_expansion.py: class Hash, an open-addressing  *)
(* hash map over two parallel arrays with a fixed probe stride and a       *)
(* growth step that quadruples the arrays.                                 *)
(*                                                                         *)
(* Positions are 0-based as in the source: the arrays are functions on     *)
(* 0 .. _size - 1.  A key is a record [kind, n, s]: kind "int" carries the *)
(* integer n; the three text kinds carry the text s as the sequence of the *)
(* ord() of its characters: kind "str" is an ASCII text (a str and a       *)
(* unicode of the same ASCII text are equal, hash alike and format alike), *)
(* kind "unicode" a unicode object with a non-ASCII character, kind        *)
(* "bytes" a byte string with a non-ASCII byte (Python 2 holds the last    *)
(* two unequal even when their ord() sequences agree); kind "float" stands *)
(* for a key that is neither integer nor text, kind "None" is Python's     *)
(* None.  Values are integers; NoneValue stands for None in _values.       *)
(***************************************************************************)
EXTENDS Integers, Sequences, FiniteSets

\* the five fields of self; lastOp is the latest call made on the map: its
\* name, its arguments (size for the constructor, key and value for the
\* others), how it ended and what it returned; nOps counts the calls;
\* hashfunction is the hash function the constructor was called with;
\* deleted is the set of keys whose latest delete returned and that no put
\* has been called with since
VARIABLES _size, _used_slots, _dummy_slots, _keys, _values, lastOp, nOps,
          hashfunction, deleted

vars == <<_size, _used_slots, _dummy_slots, _keys, _values, lastOp, nOps,
          hashfunction, deleted>>

(* ---------------------------------------------------------------------- *)
(* Bounds of the model                                                     *)
(* ---------------------------------------------------------------------- *)

\* number of calls of put/get/delete made on the map
MaxOps == 7

\* number of calls made on the map in the runs over three keys
MaxDeepOps == 9

(* ---------------------------------------------------------------------- *)
(* Keys and values                                                         *)
(* ---------------------------------------------------------------------- *)

None == [kind |-> "None", n |-> 0, s |-> <<>>]
NoneValue == 0

IntKey(i) == [kind |-> "int", n |-> i, s |-> <<>>]
StrKey(cs) == [kind |-> "str", n |-> 0, s |-> cs]
UnicodeKey(cs) == [kind |-> "unicode", n |-> 0, s |-> cs]
BytesKey(cs) == [kind |-> "bytes", n |-> 0, s |-> cs]
FloatKey == [kind |-> "float", n |-> 0, s |-> <<>>]

\* the ASCII texts "a" and "c" (code points 97, 99), the byte string
\* "\xe5" (ord 229), the unicode text u"\xea" (ord 234) and the integers
\* 4 and 8.  In an array of 8 slots "c" and 8 start at slot 0, "\xe5" at 2,
\* 4 at 4, "a" at 6 (five keys on the even slots) and u"\xea" at 7.
TextKeys == {StrKey(<<c>>) : c \in {97, 99}}
                \cup {BytesKey(<<229>>), UnicodeKey(<<234>>)}
IntKeys == {IntKey(4), IntKey(8)}
ValidKeys == TextKeys \cup IntKeys
Keys == ValidKeys \cup {FloatKey}
Values == {1, 2}

\* the size arguments the constructor is called with
CtorSizes == {8, 16}

\* the hash functions the constructor is called with: the default and one
\* that returns custom_hash(key) + 1
HashFunctions == {"custom_hash", "shifted_hash"}

(* ---------------------------------------------------------------------- *)
(* custom_hash                                                             *)
(* ---------------------------------------------------------------------- *)

RECURSIVE djb2(_, _)
djb2(result, chars) ==
    IF chars = <<>> THEN result
    ELSE djb2(33 * result + Head(chars), Tail(chars))

custom_hash(key) ==
    IF key.kind = "int" THEN key.n ELSE djb2(5381, key.s)

\* the value of the hash function named hf at key
ApplyHash(hf, key) ==
    IF hf = "shifted_hash" THEN custom_hash(key) + 1 ELSE custom_hash(key)

(* ---------------------------------------------------------------------- *)
(* The map as a value: the fields of self                                  *)
(* ---------------------------------------------------------------------- *)

Self == [size |-> _size, used |-> _used_slots, dummy |-> _dummy_slots,
         keys |-> _keys, values |-> _values]

\* Hash.__init__(size, hashfunction): both arguments are ignored
HashInit(size) ==
    [size |-> 8, used |-> 0, dummy |-> 0,
     keys |-> [i \in 0..7 |-> None],
     values |-> [i \in 0..7 |-> NoneValue]]

\* a variant that leaves the deleted slots out of the ratio
should_expand_ignores_dummy(t) == 100 * t.used >= 70 * t.size

\* a variant that counts the entry about to be inserted
should_expand_counts_new(t) == 100 * (t.used + t.dummy + 1) >= 70 * t.size

\* a variant with the threshold at 0.90
should_expand_late(t) == 100 * (t.used + t.dummy) >= 90 * t.size

\* float(used + dummy) / size >= 0.70, in integers (size is a power of two,
\* so the ratio is never 0.70 exactly and the float comparison is exact)
should_expand(t) == 100 * (t.used + t.dummy) >= 70 * t.size

_probing(current_position, size) == ((5 + current_position) + 1) % size

_calculate_position(hashvalue, size) == hashvalue % size

\* a variant that treats an update as a no-op on the value
_set_item_at_pos_keeps_value(t, position, key, value) ==
    [t EXCEPT !.keys[position] = key,
              !.values[position] = IF t.keys[position] = key THEN @ ELSE value,
              !.used = @ + 1]

_set_item_at_pos(t, position, key, value) ==
    [t EXCEPT !.keys[position] = key, !.values[position] = value,
              !.used = @ + 1]

\* _set_item recurses once per probe.  The probe walk is periodic with a
\* period that divides size, so a walk that has made `fuel` = size probes
\* without reaching a None or matching slot never reaches one: Python ends
\* it with the recursion-limit error and the arrays are left as they were.
RECURSIVE _set_item(_, _, _, _, _)
_set_item(t, position, key, value, fuel) ==
    LET existing_key == t.keys[position] IN
    IF existing_key = None \/ existing_key = key
    THEN [ok |-> TRUE, t |-> _set_item_at_pos(t, position, key, value)]
    ELSE IF fuel = 0
    THEN [ok |-> FALSE, t |-> t]
    ELSE _set_item(t, _probing(position, t.size), key, value, fuel - 1)

\* for (key, value) in zip(keys, values), from index i on; an error of
\* _set_item leaves the loop with the entries placed so far
RECURSIVE _reposition(_, _, _, _, _)
_reposition(t, keys, values, i, n) ==
    IF i = n THEN [ok |-> TRUE, t |-> t]
    ELSE IF keys[i] = None THEN _reposition(t, keys, values, i + 1, n)
    ELSE LET position == _calculate_position(custom_hash(keys[i]), t.size)
             r == _set_item(t, position, keys[i], values[i], t.size)
         IN IF r.ok THEN _reposition(r.t, keys, values, i + 1, n)
            ELSE r

\* a variant that divides the size by 4
_resize_shrinks(t) ==
    LET size == t.size \div 4
        fresh == [size |-> size, used |-> 0, dummy |-> 0,
                  keys |-> [i \in 0..(size - 1) |-> None],
                  values |-> [i \in 0..(size - 1) |-> NoneValue]]
    IN _reposition(fresh, t.keys, t.values, 0, t.size)

_resize(t) ==
    LET size == t.size * 4
        fresh == [size |-> size, used |-> 0, dummy |-> 0,
                  keys |-> [i \in 0..(size - 1) |-> None],
                  values |-> [i \in 0..(size - 1) |-> NoneValue]]
    IN _reposition(fresh, t.keys, t.values, 0, t.size)

\* isinstance(key, (basestring, int))
acceptable_key(key) == key.kind \in {"int", "str", "unicode", "bytes"}

\* a variant that grows before it looks at the key
put_validates_late(t, key, value) ==
    LET grown == IF should_expand(t) THEN _resize(t)
                 ELSE [ok |-> TRUE, t |-> t]
    IN IF ~grown.ok THEN [result |-> "RecursionError", t |-> grown.t]
       ELSE IF ~acceptable_key(key) THEN [result |-> "TypeError", t |-> grown.t]
       ELSE LET position == _calculate_position(custom_hash(key), grown.t.size)
                r == _set_item(grown.t, position, key, value, grown.t.size)
            IN [result |-> IF r.ok THEN "ok" ELSE "RecursionError", t |-> r.t]

put(t, key, value) ==
    IF ~acceptable_key(key) THEN [result |-> "TypeError", t |-> t]
    ELSE LET grown == IF should_expand(t) THEN _resize(t)
                      ELSE [ok |-> TRUE, t |-> t]
         IN IF ~grown.ok THEN [result |-> "RecursionError", t |-> grown.t]
            ELSE LET position == _calculate_position(custom_hash(key), grown.t.size)
                     r == _set_item(grown.t, position, key, value, grown.t.size)
                 IN [result |-> IF r.ok THEN "ok" ELSE "RecursionError",
                     t |-> r.t]

\* raise KeyError(u"{} key not found".format(key)): the template is a
\* unicode object, so Python 2 decodes a byte-string key as ASCII to build
\* the message and raises UnicodeDecodeError on a non-ASCII byte
KeyNotFoundInChain(key) ==
    IF key.kind = "bytes" THEN "UnicodeDecodeError" ELSE "KeyError"

\* raise KeyError("{} doesn't exist".format(key)): the template is a byte
\* string, so Python 2 encodes a unicode key as ASCII to build the message
\* and raises UnicodeEncodeError on a non-ASCII character
KeyNotFoundAtHome(key) ==
    IF key.kind = "unicode" THEN "UnicodeEncodeError" ELSE "KeyError"

RECURSIVE _get_pos_recursively(_, _, _, _)
_get_pos_recursively(t, position, key, fuel) ==
    LET new_position == _probing(position, t.size)
        tmp_key == t.keys[new_position]
    IN IF tmp_key = None THEN [result |-> KeyNotFoundInChain(key), pos |-> -1]
       ELSE IF tmp_key # key
       THEN IF fuel = 0 THEN [result |-> "RecursionError", pos |-> -1]
            ELSE _get_pos_recursively(t, new_position, key, fuel - 1)
       ELSE [result |-> "ok", pos |-> new_position]

_get_pos(t, key) ==
    IF ~acceptable_key(key) THEN [result |-> "TypeError", pos |-> -1]
    ELSE LET position == _calculate_position(custom_hash(key), t.size)
             tmp_key == t.keys[position]
         IN IF tmp_key = None THEN [result |-> KeyNotFoundAtHome(key), pos |-> -1]
            ELSE IF tmp_key # key
            THEN _get_pos_recursively(t, position, key, t.size)
            ELSE [result |-> "ok", pos |-> position]

get(t, key) ==
    LET p == _get_pos(t, key) IN
    [result |-> p.result,
     ret |-> IF p.result = "ok" THEN t.values[p.pos] ELSE NoneValue]

\* a variant that takes the slot out of _used_slots as well
_delete_item_decrements_used(t, position) ==
    [t EXCEPT !.keys[position] = None, !.values[position] = NoneValue,
              !.dummy = @ + 1, !.used = @ - 1]

_delete_item(t, position) ==
    [t EXCEPT !.keys[position] = None, !.values[position] = NoneValue,
              !.dummy = @ + 1]

delete(t, key) ==
    LET p == _get_pos(t, key) IN
    [result |-> p.result,
     t |-> IF p.result = "ok" THEN _delete_item(t, p.pos) ELSE t]

(* ---------------------------------------------------------------------- *)
(* The state machine: one action per call of the public interface          *)
(* ---------------------------------------------------------------------- *)

Store(t) ==
    /\ _size' = t.size
    /\ _used_slots' = t.used
    /\ _dummy_slots' = t.dummy
    /\ _keys' = t.keys
    /\ _values' = t.values

\* the state after Hash(size, hf)
Construct(size, hf) ==
    LET t == HashInit(size) IN
    /\ _size = t.size
    /\ _used_slots = t.used
    /\ _dummy_slots = t.dummy
    /\ _keys = t.keys
    /\ _values = t.values
    /\ lastOp = [op |-> "init", size |-> size, key |-> None,
                 value |-> NoneValue, result |-> "ok", ret |-> NoneValue]
    /\ nOps = 0
    /\ hashfunction = hf
    /\ deleted = {}

\* Hash(size): the hash function is left at its default
Init == \E size \in CtorSizes : Construct(size, "custom_hash")

\* a call of put, of get, of delete
PutCall(key, value) ==
    /\ LET r == put(Self, key, value) IN
         /\ Store(r.t)
         /\ lastOp' = [op |-> "put", size |-> 0, key |-> key, value |-> value,
                       result |-> r.result, ret |-> NoneValue]
    /\ nOps' = nOps + 1
    /\ deleted' = deleted \ {key}
    /\ UNCHANGED hashfunction

\* a variant of get that removes the entry it returns
GetCall_pops(key) ==
    /\ LET r == get(Self, key)
           d == delete(Self, key)
       IN /\ Store(d.t)
          /\ lastOp' = [op |-> "get", size |-> 0, key |-> key, value |-> NoneValue,
                        result |-> r.result, ret |-> r.ret]
    /\ nOps' = nOps + 1
    /\ UNCHANGED <<hashfunction, deleted>>

GetCall(key) ==
    /\ LET r == get(Self, key) IN
         lastOp' = [op |-> "get", size |-> 0, key |-> key, value |-> NoneValue,
                    result |-> r.result, ret |-> r.ret]
    /\ nOps' = nOps + 1
    /\ UNCHANGED <<_size, _used_slots, _dummy_slots, _keys, _values>>
    /\ UNCHANGED <<hashfunction, deleted>>

DeleteCall(key) ==
    /\ LET r == delete(Self, key) IN
         /\ Store(r.t)
         /\ lastOp' = [op |-> "delete", size |-> 0, key |-> key, value |-> NoneValue,
                       result |-> r.result, ret |-> NoneValue]
         /\ deleted' = IF r.result = "ok" THEN deleted \cup {key} ELSE deleted
    /\ nOps' = nOps + 1
    /\ UNCHANGED hashfunction

Put(key, value) == nOps < MaxOps /\ PutCall(key, value)

Get(key) == nOps < MaxOps /\ GetCall(key)

Delete(key) == nOps < MaxOps /\ DeleteCall(key)

Next ==
    \/ \E key \in Keys, value \in Values : Put(key, value)
    \/ \E key \in Keys : Get(key)
    \/ \E key \in Keys : Delete(key)

Spec == Init /\ [][Next]_vars

\* Hash(size, hashfunction) with either hash function, then the same calls
InitHash ==
    \E size \in CtorSizes, hf \in HashFunctions : Construct(size, hf)

SpecHash == InitHash /\ [][Next]_vars

(* ---------------------------------------------------------------------- *)
(* The scenario of a fresh map filled with the distinct keys "a" .. "g"    *)
(* ---------------------------------------------------------------------- *)

ScenarioKeys == {StrKey(<<c>>) : c \in 97..103}

\* put("a", 1), put("b", 2), ...: the value is the key's rank
ScenarioValue(key) == key.s[1] - 96

ScenarioNext ==
    \/ \E key \in ScenarioKeys : Put(key, ScenarioValue(key))
    \/ \E key \in ScenarioKeys : Get(key)
    \/ \E key \in ScenarioKeys : Delete(key)

SpecScenario == Init /\ [][ScenarioNext]_vars

(* ---------------------------------------------------------------------- *)
(* Longer runs over the three keys "a", "b", "c"                           *)
(* ---------------------------------------------------------------------- *)

DeepKeys == {StrKey(<<c>>) : c \in 97..99}

DeepPut(key) == nOps < MaxDeepOps /\ PutCall(key, 1)

DeepGet(key) == nOps < MaxDeepOps /\ GetCall(key)

DeepDelete(key) == nOps < MaxDeepOps /\ DeleteCall(key)

DeepNext ==
    \/ \E key \in DeepKeys : DeepPut(key)
    \/ \E key \in DeepKeys : DeepGet(key)
    \/ \E key \in DeepKeys : DeepDelete(key)

SpecDeep == Init /\ [][DeepNext]_vars

(* ---------------------------------------------------------------------- *)
(* Vocabulary of the properties                                            *)
(* ---------------------------------------------------------------------- *)

\* the fields of self after the step
SelfNext == [size |-> _size', used |-> _used_slots', dummy |-> _dummy_slots',
             keys |-> _keys', values |-> _values']

Fields == <<_size, _used_slots, _dummy_slots, _keys, _values>>

LiveSlots == {i \in DOMAIN _keys : _keys[i] # None}

Holds(key) == \E i \in DOMAIN _keys : _keys[i] = key

\* the slot a key's probe walk starts at
Home(key) == custom_hash(key) % _size

\* n calls were made and n slots are live: every call was a put of a new key
\* that returned
DistinctPuts(n) == nOps = n /\ Cardinality(LiveSlots) = n

\* the probe walk from slot p reaches slot i without passing a None slot
RECURSIVE WalkReaches(_, _, _)
WalkReaches(p, i, fuel) ==
    IF p = i THEN TRUE
    ELSE IF _keys[p] = None \/ fuel = 0 THEN FALSE
    ELSE WalkReaches(_probing(p, _size), i, fuel - 1)

RECURSIVE IsCapacity(_)
IsCapacity(n) == n = 8 \/ (n > 8 /\ n % 4 = 0 /\ IsCapacity(n \div 4))

(* ---------------------------------------------------------------------- *)
(* Properties                                                              *)
(* ---------------------------------------------------------------------- *)

\* C1: after a put(K, V) that returned, get(K) returns V.
RoundTrip ==
    (lastOp.op = "put" /\ lastOp.result = "ok")
        => get(Self, lastOp.key) = [result |-> "ok", ret |-> lastOp.value]

\* a put that returned after its key was moved off its home slot by a collision
RoundTripWitness ==
    /\ lastOp.op = "put" /\ lastOp.result = "ok"
    /\ _keys[Home(lastOp.key)] # lastOp.key
    /\ get(Self, lastOp.key).ret = lastOp.value

\* C2: a put that returns without growth adds 1 to _used_slots when it fills
\* an empty slot and leaves _used_slots unchanged when it lands on the slot
\* that already holds its key.
OverwriteCountsOnce ==
    [][(lastOp'.op = "put" /\ lastOp'.result = "ok" /\ _size' = _size)
          => _used_slots' = _used_slots +
                 (IF \E i \in DOMAIN _keys : _keys[i] = None /\ _keys'[i] # None
                  THEN 1 ELSE 0)]_vars

\* C3: after a delete(K) that returned, get(K) fails with KeyError.
DeleteThenGetFails ==
    (lastOp.op = "delete" /\ lastOp.result = "ok")
        => get(Self, lastOp.key).result = "KeyError"

\* C4: get(K) and delete(K) of an acceptable key that no slot holds fail with
\* KeyError.
MissingKeyFails ==
    [][(/\ lastOp'.op \in {"get", "delete"}
        /\ acceptable_key(lastOp'.key)
        /\ ~Holds(lastOp'.key))
          => lastOp'.result = "KeyError"]_vars

\* C5: every put with an acceptable key returns.
PutCompletes ==
    (lastOp.op = "put" /\ acceptable_key(lastOp.key)) => lastOp.result = "ok"

\* C6: a put with an acceptable key multiplies _size by 4 exactly when
\* (_used_slots + _dummy_slots) / _size >= 0.70 on entry and leaves it
\* unchanged otherwise; get and delete leave _size unchanged; _size never
\* decreases and is always 8 * 4^k.
CapacityTransitions ==
    /\ [](IsCapacity(_size))
    /\ [][/\ (lastOp'.op = "put" /\ acceptable_key(lastOp'.key))
             => _size' = IF 100 * (_used_slots + _dummy_slots) >= 70 * _size
                         THEN 4 * _size ELSE _size
          /\ lastOp'.op \in {"get", "delete"} => _size' = _size
          /\ _size' >= _size]_vars

\* a put that found deleted slots counted in the ratio and quadrupled the
\* arrays: 32 slots, fewer than five of them live
CapacityTransitionsWitness ==
    /\ lastOp.op = "put" /\ lastOp.result = "ok"
    /\ _size = 32
    /\ Cardinality(LiveSlots) < 5

\* C7: a key K for which get(K) returns V before a put of another key that
\* grows the arrays has get(K) return V after that put.
GrowthKeepsMapping ==
    [][(lastOp'.op = "put" /\ _size' # _size)
          => \A K \in ValidKeys :
                (K # lastOp'.key /\ get(Self, K).result = "ok")
                    => get(SelfNext, K) = get(Self, K)]_vars

\* C8 (as the sentence of the specification has it): on a fresh map the
\* 6th put of a distinct key grows the arrays, so _size is 8 after up to
\* five such puts and 32 after the sixth.
GrowthAtSixthPut ==
    \A n \in 0..6 : DistinctPuts(n) => _size = IF n <= 5 THEN 8 ELSE 32

\* C8 (amended): on a fresh map the first six puts of distinct keys leave
\* _size at 8 and the 7th grows the arrays to 32 before placing its key.
GrowthAtSeventhPut ==
    \A n \in 0..7 : DistinctPuts(n) => _size = IF n <= 6 THEN 8 ELSE 32

\* seven distinct keys were put, the seventh has been placed in 32 slots
GrowthAtSeventhPutWitness ==
    /\ DistinctPuts(7)
    /\ lastOp.op = "put" /\ lastOp.result = "ok"
    /\ _size = 32 /\ _used_slots = 7
    /\ \A key \in ScenarioKeys : get(Self, key).ret = ScenarioValue(key)

\* C9: put, get and delete with a key that is neither an integer nor a text
\* fail with TypeError and leave every field of the map unchanged.
TypeRejection ==
    [][(lastOp'.op \in {"put", "get", "delete"} /\ ~acceptable_key(lastOp'.key))
          => (lastOp'.result = "TypeError" /\ UNCHANGED Fields)]_vars

\* a put with a float key was rejected while the ratio was at least 0.70:
\* the arrays still have 8 slots
TypeRejectionWitness ==
    /\ lastOp.op = "put" /\ lastOp.key = FloatKey /\ lastOp.result = "TypeError"
    /\ 100 * (_used_slots + _dummy_slots) >= 70 * _size
    /\ _size = 8

\* C10: a map constructed with size N has arrays of N slots, _size = N and
\* both counters at 0.
CtorHonoursSize ==
    lastOp.op = "init"
        => /\ _size = lastOp.size
           /\ DOMAIN _keys = 0..(lastOp.size - 1)
           /\ DOMAIN _values = 0..(lastOp.size - 1)
           /\ _used_slots = 0 /\ _dummy_slots = 0

\* C11: the hash function passed to the constructor decides the slots: after
\* a put(K, V) that returned, K and V sit in a slot that the probe walk from
\* hashfunction(K) mod _size reaches.
HashFunctionHonoured ==
    (lastOp.op = "put" /\ lastOp.result = "ok")
        => \E i \in DOMAIN _keys :
              /\ _keys[i] = lastOp.key /\ _values[i] = lastOp.value
              /\ WalkReaches(ApplyHash(hashfunction, lastOp.key) % _size, i, _size)

\* C12: 0 <= _used_slots + _dummy_slots <= _size.
CounterBound ==
    /\ 0 <= _used_slots + _dummy_slots
    /\ _used_slots + _dummy_slots <= _size

\* C13: no key is held by two slots.
KeyUniqueness ==
    \A i, j \in LiveSlots : _keys[i] = _keys[j] => i = j

\* C14: every live slot is reached by the probe walk from its key's home
\* slot before the walk meets a None slot.
ProbeChainReachable ==
    \A i \in LiveSlots : WalkReaches(Home(_keys[i]), i, _size)

\* C15: _used_slots is the number of slots whose key is not None.
UsedCountsLiveSlots ==
    _used_slots = Cardinality(LiveSlots)

\* C16: a get, however it ends, leaves _keys, _values, _size, _used_slots and
\* _dummy_slots unchanged.
GetReadOnly ==
    [][lastOp'.op = "get" => UNCHANGED Fields]_vars

\* a get that returned a value it found by probing past its key's home slot
GetReadOnlyWitness ==
    /\ lastOp.op = "get" /\ lastOp.result = "ok" /\ lastOp.ret # NoneValue
    /\ _keys[Home(lastOp.key)] # lastOp.key

\* C17: a delete that fails with KeyError leaves every field unchanged; a
\* delete that returns resets exactly one slot, one that held its key, to
\* None, adds 1 to _dummy_slots and leaves the other slots, _size and
\* _used_slots unchanged.
DeleteAllOrNothing ==
    [][lastOp'.op = "delete" =>
          /\ lastOp'.result = "KeyError" => UNCHANGED Fields
          /\ lastOp'.result = "ok" =>
                /\ \E i \in DOMAIN _keys :
                      /\ _keys[i] = lastOp'.key
                      /\ _keys' = [_keys EXCEPT ![i] = None]
                      /\ _values' = [_values EXCEPT ![i] = NoneValue]
                /\ _dummy_slots' = _dummy_slots + 1
                /\ _used_slots' = _used_slots
                /\ _size' = _size]_vars

\* a second delete returned while other keys stay in their slots
DeleteAllOrNothingWitness ==
    /\ lastOp.op = "delete" /\ lastOp.result = "ok"
    /\ _dummy_slots >= 2
    /\ Cardinality(LiveSlots) >= 2

\* C18: get(K) fails with KeyError in every state from a delete(K) that
\* returned until the next put(K, _).
DeletedStaysDeleted ==
    \A K \in deleted : get(Self, K).result = "KeyError"

NeverFull ==
    /\ Cardinality(LiveSlots) <= _used_slots
    /\ 10 * Cardinality(LiveSlots) < 7 * _size + 10
    /\ \E i \in DOMAIN _keys : _keys[i] = None

\* six of eight slots are live: ceil(0.70 * 8) is attained
NeverFullWitness ==
    /\ _size = 8
    /\ Cardinality(LiveSlots) = 6
    /\ _used_slots = 6

====
